---- MODULE Spec2Model ----
(***************************************************************************)
(* Repository acquisition of docugen: utils/git_operations.py               *)
(* (clone_repository, _clone_with_git, _download_with_github_api,           *)
(* cleanup_repository) and utils/crawl_github_files.py (crawl_github_files).*)
(* One behaviour is one call of clone_repository or of crawl_github_files.  *)
(* Strings are sequences of one-character strings, so that startswith,      *)
(* the `in` substring test, lower() and urlparse are computed.              *)
(***************************************************************************)
EXTENDS Integers, Sequences, FiniteSets, TLC

\* ------------------------------------------------------------------ strings

\* Python's None for an optional string (no modelled path or ref is empty).
None == <<>>

\* s.startswith(p)
StartsWith(s, p) ==
    /\ Len(p) <= Len(s)
    /\ \A i \in 1..Len(p) : s[i] = p[i]

\* t in s  (substring test)
Contains(s, t) ==
    \E k \in 0..(Len(s) - Len(t)) : \A i \in 1..Len(t) : s[k + i] = t[i]

\* The upper-case letters that occur in the modelled URLs, lowered.
LowerChar(c) ==
    CASE c = "G" -> "g"
      [] c = "H" -> "h"
      [] OTHER -> c

\* s.lower()
Lower(s) == [i \in 1..Len(s) |-> LowerChar(s[i])]

\* First position >= from where s holds c, Len(s) + 1 if there is none.
RECURSIVE IndexOf(_, _, _)
IndexOf(s, c, from) ==
    IF from > Len(s) THEN Len(s) + 1
    ELSE IF s[from] = c THEN from
    ELSE IndexOf(s, c, from + 1)

\* urlparse(url): the text after "scheme:".
AfterScheme(url) == SubSeq(url, IndexOf(url, ":", 1) + 1, Len(url))

\* urlparse(url).netloc: between the leading "//" and the next "/".
Netloc(url) ==
    LET r == AfterScheme(url) IN
    IF StartsWith(r, <<"/", "/">>)
    THEN SubSeq(r, 3, IndexOf(r, "/", 3) - 1)
    ELSE <<>>

\* urlparse(url).path: from the "/" that ends the netloc.
UrlPath(url) ==
    LET r == AfterScheme(url) IN
    IF StartsWith(r, <<"/", "/">>)
    THEN SubSeq(r, IndexOf(r, "/", 3), Len(r))
    ELSE r

\* s.lstrip(c)
RECURSIVE LStrip(_, _)
LStrip(s, c) == IF s # <<>> /\ Head(s) = c THEN LStrip(Tail(s), c) ELSE s

\* s.rstrip(c)
RECURSIVE RStrip(_, _)
RStrip(s, c) ==
    IF s # <<>> /\ s[Len(s)] = c THEN RStrip(SubSeq(s, 1, Len(s) - 1), c) ELSE s

\* s.strip(c)
Strip(s, c) == RStrip(LStrip(s, c), c)

\* s.split(c): always at least one (possibly empty) part.
RECURSIVE Split(_, _)
Split(s, c) ==
    LET i == IndexOf(s, c, 1) IN
    IF i > Len(s) THEN <<s>>
    ELSE <<SubSeq(s, 1, i - 1)>> \o Split(SubSeq(s, i + 1, Len(s)), c)

\* parsed.path.strip('/').split('/')
PathParts(url) == Split(Strip(UrlPath(url), "/"), "/")

\* -------------------------------------------------------------- the inputs

GITHUB == <<"g","i","t","h","u","b">>
GITHUB_COM == <<"g","i","t","h","u","b",".","c","o","m">>

\* https://github.com/o/r
URL_PUBLIC ==
    <<"h","t","t","p","s",":","/","/","g","i","t","h","u","b",".","c","o","m","/","o","/","r">>
\* https://GitHub.com/o/r
URL_PUBLIC_UPPER ==
    <<"h","t","t","p","s",":","/","/","G","i","t","H","u","b",".","c","o","m","/","o","/","r">>
\* https://github.acme.io/o/r
URL_ENTERPRISE ==
    <<"h","t","t","p","s",":","/","/","g","i","t","h","u","b",".","a","c","m","e",".","i","o","/","o","/","r">>
\* https://github.acme.io/o
URL_SHORT ==
    <<"h","t","t","p","s",":","/","/","g","i","t","h","u","b",".","a","c","m","e",".","i","o","/","o">>
\* https://git.acme.io/o/r
URL_OTHER ==
    <<"h","t","t","p","s",":","/","/","g","i","t",".","a","c","m","e",".","i","o","/","o","/","r">>
\* https://git.acme.io/github.com/r
URL_OTHER_MENTION ==
    <<"h","t","t","p","s",":","/","/","g","i","t",".","a","c","m","e",".","i","o","/","g","i","t","h","u","b",".","c","o","m","/","r">>

\* https://github.com/o/r.git
URL_DOT_GIT ==
    <<"h","t","t","p","s",":","/","/","g","i","t","h","u","b",".","c","o","m","/","o","/","r",".","g","i","t">>

\* tempfile.gettempdir()
TMPDIR == <<"/","t","m","p">>
\* the directory tempfile.mkdtemp(prefix="codegates_repo_", suffix="_temp") makes
MKDTEMP ==
    <<"/","t","m","p","/","c","o","d","e","g","a","t","e","s","_","r","e","p","o","_","a","_","t","e","m","p">>
\* caller-supplied target directories: /tmp/out and /srv/out
CALLER_TMP == <<"/","t","m","p","/","o","u","t">>
CALLER_SRV == <<"/","s","r","v","/","o","u","t">>

\* https://github.com/o/r/tree/dev/s
URL_TREE ==
    <<"h","t","t","p","s",":","/","/","g","i","t","h","u","b",".","c","o","m","/","o","/","r","/","t","r","e","e","/","d","e","v","/","s">>
\* https://github.acme.io/o/r/tree/dev
URL_TREE_ENT ==
    <<"h","t","t","p","s",":","/","/","g","i","t","h","u","b",".","a","c","m","e",".","i","o","/","o","/","r","/","t","r","e","e","/","d","e","v">>

\* https://github.com/o/r/tree
URL_TREE_ONLY ==
    <<"h","t","t","p","s",":","/","/","g","i","t","h","u","b",".","c","o","m","/","o","/","r","/","t","r","e","e">>

TREE == <<"t","r","e","e">>
MAIN == <<"m","a","i","n">>
DEV == <<"d","e","v">>
REL == <<"r","e","l">>
\* a branch whose name is the beginning of the name of the branch dev
DE == <<"d","e">>

CloneUrls ==
    {URL_PUBLIC, URL_PUBLIC_UPPER, URL_ENTERPRISE, URL_SHORT, URL_OTHER, URL_OTHER_MENTION}
TargetDirs == {None, CALLER_TMP, CALLER_SRV}

\* The calls of crawl_github_files.
CrawlUrls == {URL_PUBLIC, URL_OTHER, URL_SHORT, URL_TREE, URL_TREE_ENT, URL_TREE_ONLY}
Branches == {MAIN, REL}
\* What the branch-listing endpoint answers: the names, in the API's order.
BranchAnswers == {<<>>, <<MAIN, DEV>>, <<MAIN>>, <<DE, DEV>>}

\* Files of a repository: path, whether os.path.getsize succeeds (it raises
\* OSError on a dangling symbolic link), size in bytes, whether the content
\* decodes as UTF-8, whether the path can be printed (a name that is not valid
\* UTF-8 is read from the directory with surrogate escapes, which print()
\* cannot encode).
F_A == [path |-> <<"a",".","p","y">>, stat |-> TRUE, size |-> 1, decodes |-> TRUE,
        prints |-> TRUE]
F_B == [path |-> <<"s","/","b",".","m","d">>, stat |-> TRUE, size |-> 3, decodes |-> TRUE,
        prints |-> TRUE]
F_C == [path |-> <<"c",".","b","i","n">>, stat |-> TRUE, size |-> 2, decodes |-> FALSE,
        prints |-> TRUE]
F_D == [path |-> <<"s","/","d",".","m","d">>, stat |-> TRUE, size |-> 1, decodes |-> TRUE,
        prints |-> TRUE]
F_L == [path |-> <<"l">>, stat |-> FALSE, size |-> 0, decodes |-> FALSE, prints |-> TRUE]
F_X == [path |-> <<"s","/","x">>, stat |-> TRUE, size |-> 1, decodes |-> TRUE,
        prints |-> FALSE]
\* The repositories a transport can fetch, each in os.walk order.
Repos == {<<F_A, F_B>>, <<F_C, F_A, F_D>>, <<F_B, F_X>>, <<F_L, F_A>>}

\* The pattern arguments: None or a set of globs.
NoPatterns == {}
IncludeChoices == {NoPatterns, {<<"*",".","p","y">>, <<"*",".","m","d">>}}
ExcludeChoices == {NoPatterns, {<<"s","/","*">>}}
\* The largest max_file_size of a call.
MaxSize == 2
MaxFileSizes == 1..MaxSize

\* --------------------------------------------------------- classification

\* hostname = parsed_url.netloc.lower()
Hostname(url) == Lower(Netloc(url))

\* Mutant of IsGithubEnterprise: the comparison with 'github.com' inverted.
IsGithubEnterprise_Inverted(url) ==
    Contains(Hostname(url), GITHUB) /\ Hostname(url) = GITHUB_COM

\* is_github_enterprise = 'github' in hostname and hostname != 'github.com'
IsGithubEnterprise(url) ==
    Contains(Hostname(url), GITHUB) /\ Hostname(url) # GITHUB_COM

\* Mutant of FallbackToApi: the archive fallback is never taken.
FallbackToApi_Never(url) == FALSE

\* if "github.com" in repo_url  (the fallback test of the non-enterprise branch)
FallbackToApi(url) == Contains(url, GITHUB_COM)

\* Mutant of ShouldCleanup: the failure paths skip the cleanup.
ShouldCleanup_Never(dir) == FALSE

\* if target_dir and target_dir.startswith(tempfile.gettempdir())
ShouldCleanup(dir) == dir # None /\ StartsWith(dir, TMPDIR)

\* ------------------------------------------------------------------- state

VARIABLES
    entry,          \* the function the caller called
    repo_url,       \* argument repo_url
    supplied,       \* argument target_dir as the caller passed it (None: not passed)
    disable_ssl,    \* GITHUB_ENTERPRISE_DISABLE_SSL is 'true' (its default)
    ca_bundle,      \* GITHUB_ENTERPRISE_CA_BUNDLE names an existing file
    branch,         \* argument branch of crawl_github_files
    use_relative_paths, \* argument use_relative_paths
    max_file_size,  \* argument max_file_size
    include_patterns, \* argument include_patterns, as a set
    exclude_patterns, \* argument exclude_patterns, as a set
    pc,             \* position in the call
    target_dir,     \* local target_dir of clone_repository
    ws,             \* the directory target_dir on disk: [exists, content]
    sibling,        \* the directory target_dir + "_temp" exists on disk
    phase,          \* "primary" or "fallback" transport of clone_repository
    attempted,      \* transports invoked so far, in order
    outcomes,       \* their results, in order: "ok" or "err"
    api_error,      \* message of the exception _download_with_github_api raised
    git_error,      \* message of the exception _clone_with_git raised
    crResult,       \* clone_repository: "none", "returned" or "raised"
    crError,        \* the messages the raised exception carries
    cleanups,       \* calls of cleanup_repository: [by, removed]
    git_noverify,   \* env['GIT_SSL_NO_VERIFY'] = 'true'
    git_ssl_retry,  \* ssl_retry_attempted of _clone_with_git
    clone_calls,    \* calls of git.Repo.clone_from: [noverify, out]
    attempt,        \* loop variable of _download_with_github_api
    verify,         \* request_kwargs["verify"]: "default", "bundle" or "off"
    api_ssl_retry,  \* ssl_retry_attempted of _download_with_github_api
    requests,       \* calls of session.get: [attempt, verify, outcome]
    sleeps,         \* calls of time.sleep: the seconds of each
    response,       \* the local `response` is bound
    branches,       \* crawl_github_files: the names fetch_branches returned
    ref,            \* the ref resolved from the URL, None if none
    subdir,         \* the subdirectory resolved from the URL
    clone_branch,   \* the branch passed to clone_repository
    walk,           \* files os.walk has still to yield
    files,          \* the dict files: the relative paths collected
    skipped_files,  \* the list skipped_files: <<path, size>>
    crawlResult,    \* crawl_github_files: "none", "None", "dict" or "raised"
    stats,          \* the "stats" of the returned dict
    lookups,        \* calls of fetch_branches and check_tree: [call, arg, ok]
    walked,         \* the files os.walk has yielded so far
    sent_branches,  \* the branch values handed to clone_from and to the zipball URL
    cleanup_calls,  \* direct calls of cleanup_repository: [existed, rmtree, raised, exists]
    exec_res,       \* how the exec call of the node ended
    num_abstractions, \* len(abstractions) of OrderChapters / AnalyzeRelationships
    ordered_indices_raw, \* OrderChapters: the list parsed from the LLM answer
    ordered_indices, \* OrderChapters: the validated order
    seen_indices,   \* OrderChapters: the indices already placed
    relationships,  \* AnalyzeRelationships: relationships_data["relationships"]
    validated_relationships, \* AnalyzeRelationships: the validated details
    position        \* 1-based position of the loop over the LLM list

inputVars ==
    <<entry, repo_url, supplied, disable_ssl, ca_bundle, branch, use_relative_paths,
      max_file_size, include_patterns, exclude_patterns>>
crawlVars ==
    <<branches, ref, subdir, clone_branch, walk, files, skipped_files, crawlResult, stats>>
fsVars == <<ws, sibling>>
crVars == <<target_dir, phase, attempted, outcomes, api_error, git_error, crResult, crError>>
gitVars == <<git_noverify, git_ssl_retry, clone_calls>>
apiVars == <<attempt, verify, api_ssl_retry, requests, sleeps, response>>
logVars == <<lookups, walked, sent_branches, cleanup_calls>>
nodeVars ==
    <<exec_res, num_abstractions, ordered_indices_raw, ordered_indices, seen_indices,
      relationships, validated_relationships, position>>
vars ==
    <<inputVars, pc, fsVars, crVars, cleanups, gitVars, apiVars, crawlVars, logVars, nodeVars>>

\* Contents a workspace directory can hold.
\*   "repo.zip"   the downloaded archive file
\*   "partial"    some entries of an extraction that did not finish
\*   "extracted"  the archive's top-level directory, fully extracted
\*   "loose"      the entries of an archive that has no top-level directory
\*   "tree"       the archive's content moved to the workspace root
\*   "clone"      a finished clone
EmptyDir == [exists |-> TRUE, content |-> {}]
NoDir == [exists |-> FALSE, content |-> {}]

\* os.path.exists(target_dir) before the call: a caller-supplied directory
\* may or may not exist; a mkdtemp name does not exist yet.
InitWs == {EmptyDir, NoDir}

\* A call of clone_repository; the arguments of crawl_github_files are unused.
InitCall ==
    /\ entry = "clone_repository"
    /\ repo_url \in CloneUrls
    /\ supplied \in TargetDirs
    /\ disable_ssl \in BOOLEAN
    /\ ca_bundle \in BOOLEAN
    /\ ws \in (IF supplied = None THEN {NoDir} ELSE InitWs)
    /\ sibling \in BOOLEAN
    /\ branch = MAIN
    /\ use_relative_paths = FALSE
    /\ max_file_size = MaxSize
    /\ include_patterns = NoPatterns
    /\ exclude_patterns = NoPatterns
    /\ pc = "cr_start"

\* A call of crawl_github_files: it passes no target_dir to clone_repository.
InitCrawlCall ==
    /\ entry = "crawl_github_files"
    /\ repo_url \in CrawlUrls
    /\ supplied = None
    /\ disable_ssl \in BOOLEAN
    /\ ca_bundle = FALSE
    /\ ws = NoDir
    /\ sibling = FALSE
    /\ branch \in Branches
    /\ use_relative_paths \in BOOLEAN
    /\ max_file_size \in MaxFileSizes
    /\ include_patterns \in IncludeChoices
    /\ exclude_patterns \in ExcludeChoices
    /\ pc = "crawl_start"

\* test_cleanup_functionality: cleanup_repository is called on a path that
\* holds a directory with one file, or on a path that holds nothing.
InitCleanupCall ==
    /\ entry = "cleanup_repository"
    /\ repo_url = URL_PUBLIC
    /\ supplied \in {CALLER_TMP, CALLER_SRV}
    /\ disable_ssl = TRUE
    /\ ca_bundle = FALSE
    /\ ws \in {[exists |-> TRUE, content |-> {"test.txt"}], NoDir}
    /\ sibling = FALSE
    /\ branch = MAIN
    /\ use_relative_paths = FALSE
    /\ max_file_size = MaxSize
    /\ include_patterns = NoPatterns
    /\ exclude_patterns = NoPatterns
    /\ pc = "cleanup_idle"

\* FetchRepo.prep and the call of line 55: the arguments come from the shared
\* store, use_relative_paths is True.
InitFetchCall ==
    /\ entry = "FetchRepo.exec"
    /\ repo_url \in CrawlUrls
    /\ supplied = None
    /\ disable_ssl \in BOOLEAN
    /\ ca_bundle = FALSE
    /\ ws = NoDir
    /\ sibling = FALSE
    /\ branch \in Branches
    /\ use_relative_paths = TRUE
    /\ max_file_size \in MaxFileSizes
    /\ include_patterns \in IncludeChoices
    /\ exclude_patterns \in ExcludeChoices
    /\ pc = "crawl_start"

InitCallLocals ==
    /\ target_dir = supplied
    /\ phase = "primary"
    /\ attempted = <<>>
    /\ outcomes = <<>>
    /\ api_error = "none"
    /\ git_error = "none"
    /\ crResult = "none"
    /\ crError = {}
    /\ cleanups = <<>>
    /\ git_noverify = FALSE
    /\ git_ssl_retry = FALSE
    /\ clone_calls = <<>>
    /\ attempt = 0
    /\ verify = "default"
    /\ api_ssl_retry = FALSE
    /\ requests = <<>>
    /\ sleeps = <<>>
    /\ response = FALSE
    /\ branches = <<>>
    /\ ref = None
    /\ subdir = None
    /\ clone_branch = None
    /\ walk = <<>>
    /\ files = {}
    /\ skipped_files = <<>>
    /\ crawlResult = "none"
    /\ stats = [error |-> "none"]
    /\ lookups = <<>>
    /\ walked = <<>>
    /\ sent_branches = {}
    /\ cleanup_calls = <<>>

\* No OrderChapters and no AnalyzeRelationships call is in progress.
InitNodeLocals ==
    /\ exec_res = "pending"
    /\ num_abstractions = 0
    /\ ordered_indices_raw = <<>>
    /\ ordered_indices = <<>>
    /\ seen_indices = {}
    /\ relationships = <<>>
    /\ validated_relationships = <<>>
    /\ position = 1

InitLocals == InitCallLocals /\ InitNodeLocals

Init == InitCall /\ InitLocals

InitCrawl == InitCrawlCall /\ InitLocals

InitCleanup == InitCleanupCall /\ InitLocals

InitFetch == InitFetchCall /\ InitLocals

\* The entry points that run crawl_github_files.
CrawlEntries == {"crawl_github_files", "FetchRepo.exec"}

\* Mutant of BranchArg: the transports fetch the default branch.
BranchArg_Default == MAIN

\* The parameter `branch` of clone_repository, which it hands to both
\* transports: crawl_github_files passes clone_branch (line 150) or branch
\* (line 232), which Crawl_Parse and Crawl_Resolve keep in clone_branch.
BranchArg == IF entry \in CrawlEntries THEN clone_branch ELSE branch

\* ------------------------------------------------------ cleanup_repository

\* What cleanup_repository(repo_path) leaves of directory d: nothing happens
\* if the path does not exist; otherwise shutil.rmtree removes it (removed) or
\* raises, which is printed and swallowed (the directory stays).
AfterCleanup(d, removed) == IF d.exists /\ removed THEN NoDir ELSE d

\* The removal outcomes cleanup_repository can meet on directory d.
RmOutcomes(d) == IF d.exists THEN BOOLEAN ELSE {FALSE}

\* The calls of cleanup_repository one behaviour makes on the same path.
MaxCleanupCalls == 4

\* What shutil.rmtree(repo_path) does on an existing path: it removes the
\* tree, or raises (no permission, the path is a file, another OS error).
RmTreeResults == {"removed", "PermissionError", "NotADirectoryError", "OSError"}

\* Mutant of CleanupHandlerCatches: only a permission error is caught.
CleanupHandlerCatches_OnlyPermission(exc) == exc = "PermissionError"

\* except Exception as e   (line 423): the errors of shutil.rmtree it catches.
CleanupHandlerCatches(exc) == exc \in {"PermissionError", "NotADirectoryError", "OSError"}

\* Lines 411-424: one call cleanup_repository(repo_path) by a caller that
\* calls it again and again on the same path; an exception that leaves the
\* function ends the caller.
Cleanup_Call ==
    /\ pc = "cleanup_idle"
    /\ entry = "cleanup_repository"
    /\ Len(cleanup_calls) < MaxCleanupCalls
    /\ IF ws.exists
       THEN \E result \in RmTreeResults :
              LET raised == result # "removed" /\ ~CleanupHandlerCatches(result) IN
              /\ ws' = AfterCleanup(ws, result = "removed")
              /\ cleanup_calls' = Append(cleanup_calls,
                                         [existed |-> TRUE, rmtree |-> result,
                                          raised |-> raised, exists |-> result # "removed"])
              /\ pc' = IF raised THEN "cleanup_raised" ELSE "cleanup_idle"
       ELSE /\ cleanup_calls' = Append(cleanup_calls,
                                       [existed |-> FALSE, rmtree |-> "not called",
                                        raised |-> FALSE, exists |-> FALSE])
            /\ UNCHANGED <<ws, pc>>
    /\ UNCHANGED <<inputVars, nodeVars, lookups, walked, sent_branches, sibling, crVars, cleanups, gitVars,
                   apiVars, crawlVars>>

\* -------------------------------------------------------- clone_repository

\* Lines 35-51: allocate the workspace when none was supplied, create a
\* supplied directory that is missing, verify it is writable.
CR_Prepare ==
    /\ pc = "cr_start"
    /\ \E made \in BOOLEAN, writable \in BOOLEAN :
         IF ~made /\ ~ws.exists
         THEN \* mkdtemp or os.makedirs raised
              /\ crResult' = "raised"
              /\ crError' = {"create"}
              /\ pc' = "cr_done"
              /\ UNCHANGED <<target_dir, ws>>
         ELSE /\ target_dir' = IF target_dir = None THEN MKDTEMP ELSE target_dir
              /\ ws' = IF ws.exists THEN ws ELSE EmptyDir
              /\ IF writable
                 THEN /\ pc' = "cr_dispatch"
                      /\ UNCHANGED <<crResult, crError>>
                 ELSE /\ crResult' = "raised"
                      /\ crError' = {"not writable"}
                      /\ pc' = "cr_done"
    /\ UNCHANGED <<inputVars, nodeVars, logVars, crawlVars, sibling, phase, attempted, outcomes, api_error, git_error,
                   cleanups, gitVars, apiVars>>

\* Lines 54-62 and 76-80: choose the primary transport by host class.
CR_Dispatch ==
    /\ pc = "cr_dispatch"
    /\ phase' = "primary"
    /\ IF IsGithubEnterprise(repo_url)
       THEN /\ pc' = "api_start"
            /\ attempted' = Append(attempted, "archive")
       ELSE /\ pc' = "git_start"
            /\ attempted' = Append(attempted, "clone")
    /\ UNCHANGED <<inputVars, nodeVars, logVars, crawlVars, fsVars, target_dir, outcomes, api_error, git_error, crResult,
                   crError, cleanups, gitVars, apiVars>>

\* return _download_with_github_api(...) / return _clone_with_git(...)
CR_Return ==
    /\ pc = "cr_ret"
    /\ outcomes[Len(outcomes)] = "ok"
    /\ crResult' = "returned"
    /\ pc' = "cr_done"
    /\ UNCHANGED <<inputVars, nodeVars, logVars, crawlVars, fsVars, target_dir, phase, attempted, outcomes, api_error,
                   git_error, crError, cleanups, gitVars, apiVars>>

\* Mutant of FallbackTransport: the fallback repeats the primary transport.
FallbackTransport_Same(is_github_enterprise) ==
    IF is_github_enterprise THEN "archive" ELSE "clone"

\* Lines 68-69 and 84-88: the transport called in the except branch of the
\* primary one.
FallbackTransport(is_github_enterprise) ==
    IF is_github_enterprise THEN "clone" ELSE "archive"

\* Lines 63-69 and 81-88: the primary transport raised and a fallback exists.
CR_Fallback ==
    /\ pc = "cr_ret"
    /\ phase = "primary"
    /\ outcomes[Len(outcomes)] = "err"
    /\ IsGithubEnterprise(repo_url) \/ FallbackToApi(repo_url)
    /\ LET transport == FallbackTransport(IsGithubEnterprise(repo_url)) IN
         /\ pc' = IF transport = "clone" THEN "git_start" ELSE "api_start"
         /\ attempted' = Append(attempted, transport)
    /\ phase' = "fallback"
    /\ UNCHANGED <<inputVars, nodeVars, logVars, crawlVars, fsVars, target_dir, outcomes, api_error, git_error, crResult,
                   crError, cleanups, gitVars, apiVars>>

\* Lines 95-99: the clone failed and the URL has no archive fallback.
CR_RaiseGitError ==
    /\ pc = "cr_ret"
    /\ phase = "primary"
    /\ outcomes[Len(outcomes)] = "err"
    /\ ~IsGithubEnterprise(repo_url)
    /\ ~FallbackToApi(repo_url)
    /\ IF ShouldCleanup(target_dir)
       THEN \E removed \in RmOutcomes(ws) :
              /\ ws' = AfterCleanup(ws, removed)
              /\ cleanups' = Append(cleanups, [by |-> "clone_repository", removed |-> removed])
       ELSE UNCHANGED <<ws, cleanups>>
    /\ crResult' = "raised"
    /\ crError' = {git_error}
    /\ pc' = "cr_done"
    /\ UNCHANGED <<inputVars, nodeVars, logVars, crawlVars, sibling, target_dir, phase, attempted, outcomes, api_error,
                   git_error, gitVars, apiVars>>

\* Lines 70-75 and 89-94: the fallback transport raised too.
CR_RaiseBoth ==
    /\ pc = "cr_ret"
    /\ phase = "fallback"
    /\ outcomes[Len(outcomes)] = "err"
    /\ IF ShouldCleanup(target_dir)
       THEN \E removed \in RmOutcomes(ws) :
              /\ ws' = AfterCleanup(ws, removed)
              /\ cleanups' = Append(cleanups, [by |-> "clone_repository", removed |-> removed])
       ELSE UNCHANGED <<ws, cleanups>>
    /\ crResult' = "raised"
    /\ crError' = {api_error, git_error}
    /\ pc' = "cr_done"
    /\ UNCHANGED <<inputVars, nodeVars, logVars, crawlVars, sibling, target_dir, phase, attempted, outcomes, api_error,
                   git_error, gitVars, apiVars>>

\* ---------------------------------------------------------- _clone_with_git

\* What one call of git.Repo.clone_from can do: succeed, or raise a
\* GitCommandError whose text names a TLS, authentication, not-found,
\* connection or timeout problem or none of these, or raise another exception.
CloneOutcomes == {"ok", "ssl", "auth", "notfound", "refused", "timeout", "other", "nongit"}

\* git clone refuses a destination that exists and is not empty.
CanClone(d) == d.content = {}

\* Mutant of GitSslRetry: the retry does not look at the host class.
GitSslRetry_AnyHost(enterprise, retried) == ~retried

\* if is_github_enterprise and not ssl_retry_attempted
GitSslRetry(enterprise, retried) == enterprise /\ ~retried

\* The exception _clone_with_git raises for a first-attempt failure (lines 185-198).
GitMessage(out) ==
    CASE out = "ssl" -> "git: SSL certificate issue"
      [] out = "auth" -> "git: authentication failed"
      [] out = "notfound" -> "git: repository not found"
      [] out = "refused" -> "git: connection refused"
      [] out = "timeout" -> "git: clone timeout"
      [] out = "other" -> "git: clone failed"
      [] OTHER -> "git: failed to clone repository"

\* Lines 102-143: the environment of the clone.
Git_Start ==
    /\ pc = "git_start"
    /\ git_noverify' = (IsGithubEnterprise(repo_url) /\ disable_ssl)
    /\ git_ssl_retry' = FALSE
    /\ clone_calls' = <<>>
    /\ pc' = "git_clone"
    /\ UNCHANGED <<inputVars, nodeVars, logVars, crawlVars, fsVars, crVars, cleanups, apiVars>>

\* Lines 145-198: the first clone_from and the handling of its failure.
Git_Clone ==
    /\ pc = "git_clone"
    /\ \E out \in CloneOutcomes :
         /\ out = "ok" => CanClone(ws)
         /\ clone_calls' = Append(clone_calls, [noverify |-> git_noverify, out |-> out])
         /\ sent_branches' = sent_branches \cup {BranchArg}
         /\ CASE out = "ok" ->
                   /\ ws' = [exists |-> TRUE, content |-> {"clone"}]
                   /\ outcomes' = Append(outcomes, "ok")
                   /\ pc' = "cr_ret"
                   /\ UNCHANGED <<git_noverify, git_ssl_retry, git_error>>
              [] out = "ssl" /\ GitSslRetry(IsGithubEnterprise(repo_url), git_ssl_retry) ->
                   /\ git_noverify' = TRUE
                   /\ git_ssl_retry' = TRUE
                   /\ pc' = "git_retry"
                   /\ UNCHANGED <<ws, outcomes, git_error>>
              [] OTHER ->
                   /\ git_error' = GitMessage(out)
                   /\ outcomes' = Append(outcomes, "err")
                   /\ pc' = "cr_ret"
                   /\ UNCHANGED <<ws, git_noverify, git_ssl_retry>>
    /\ UNCHANGED <<inputVars, nodeVars, lookups, walked, cleanup_calls, crawlVars, sibling, target_dir,
                   phase, attempted, api_error, crResult, crError, cleanups, apiVars>>

\* Lines 168-183: the retry with GIT_SSL_NO_VERIFY forced on.
Git_Retry ==
    /\ pc = "git_retry"
    /\ \E out \in CloneOutcomes :
         /\ out = "ok" => CanClone(ws)
         /\ clone_calls' = Append(clone_calls, [noverify |-> git_noverify, out |-> out])
         /\ sent_branches' = sent_branches \cup {BranchArg}
         /\ IF out = "ok"
            THEN /\ ws' = [exists |-> TRUE, content |-> {"clone"}]
                 /\ outcomes' = Append(outcomes, "ok")
                 /\ UNCHANGED git_error
            ELSE /\ git_error' = "git: clone failed even with SSL disabled"
                 /\ outcomes' = Append(outcomes, "err")
                 /\ UNCHANGED ws
         /\ pc' = "cr_ret"
    /\ UNCHANGED <<inputVars, nodeVars, lookups, walked, cleanup_calls, crawlVars, sibling, target_dir,
                   phase, attempted, api_error, crResult, crError, cleanups, git_noverify,
                   git_ssl_retry, apiVars>>

\* ------------------------------------------------ _download_with_github_api

\* max_retries = 3
max_retries == 3

DOT_GIT == <<".","g","i","t">>

\* _parse_github_url: the URL without a trailing ".git", its path split.
GithubUrlParts(url) ==
    LET u == IF Len(url) >= 4 /\ SubSeq(url, Len(url) - 3, Len(url)) = DOT_GIT
             THEN SubSeq(url, 1, Len(url) - 4)
             ELSE url
    IN PathParts(u)

\* _parse_github_url raises ValueError: if len(path_parts) < 2
ParseGithubUrlFails(url) == Len(GithubUrlParts(url)) < 2

\* What one session.get + raise_for_status can do.
RequestOutcomes ==
    {"ok", "http", "ssl_cert", "ssl_other", "reset", "conn_other", "connect_timeout",
     "read_timeout"}

\* The classes of the exception of a failed request, as requests.exceptions
\* declares them: SSLError(ConnectionError), ConnectTimeout(ConnectionError, Timeout),
\* ReadTimeout(Timeout).
ExcClasses(out) ==
    CASE out = "http" -> {"HTTPError"}
      [] out \in {"ssl_cert", "ssl_other"} -> {"SSLError", "ConnectionError"}
      [] out \in {"reset", "conn_other"} -> {"ConnectionError"}
      [] out = "connect_timeout" -> {"ConnectionError", "Timeout"}
      [] out = "read_timeout" -> {"Timeout"}
      [] OTHER -> {}

\* The except clause of the request loop that catches it (lines 273, 289, 296).
InnerHandler(out) ==
    IF "SSLError" \in ExcClasses(out) THEN "SSLError"
    ELSE IF "ConnectionError" \in ExcClasses(out) THEN "ConnectionError"
    ELSE IF "Timeout" \in ExcClasses(out) THEN "Timeout"
    ELSE "none"

\* The message of the outer except clause that catches it (lines 365-385).
OuterMessage(out) ==
    IF "HTTPError" \in ExcClasses(out) THEN "api: HTTP error"
    ELSE IF "ConnectionError" \in ExcClasses(out)
         THEN (IF out = "reset" THEN "api: connection reset by peer"
               ELSE "api: connection error")
    ELSE IF "Timeout" \in ExcClasses(out) THEN "api: request timeout"
    ELSE "api: failed to download repository"

\* if is_github_enterprise and not ssl_retry_attempted
ApiSslRetry(enterprise, retried) == enterprise /\ ~retried

\* attempt < max_retries - 1
CanRetry(a) == a < max_retries - 1

\* time.sleep(2 ** attempt)
Backoff(a) == 2 ^ a

\* The request loop retries this failure on iteration a (lines 273-302).
LoopContinues(out, a, enterprise, retried) ==
    CASE InnerHandler(out) = "SSLError" -> out = "ssl_cert" /\ ApiSslRetry(enterprise, retried)
      [] InnerHandler(out) = "ConnectionError" -> out = "reset" /\ CanRetry(a)
      [] InnerHandler(out) = "Timeout" -> CanRetry(a)
      [] OTHER -> FALSE

\* for attempt in range(max_retries): where the loop goes after `continue`.
AfterContinue(a) == IF a + 1 < max_retries THEN "api_loop" ELSE "api_save"

\* Lines 201-263: parse the URL, build the request, choose the verification.
Api_Start ==
    /\ pc = "api_start"
    /\ attempt' = 0
    /\ api_ssl_retry' = FALSE
    /\ requests' = <<>>
    /\ sleeps' = <<>>
    /\ response' = FALSE
    /\ IF ParseGithubUrlFails(repo_url)
       THEN /\ api_error' = "api: invalid GitHub URL format"
            /\ outcomes' = Append(outcomes, "err")
            /\ pc' = "cr_ret"
            /\ UNCHANGED verify
       ELSE /\ verify' = IF IsGithubEnterprise(repo_url)
                         THEN (IF disable_ssl THEN "off"
                               ELSE IF ca_bundle THEN "bundle" ELSE "default")
                         ELSE "default"
            /\ pc' = "api_loop"
            /\ UNCHANGED <<api_error, outcomes>>
    /\ UNCHANGED <<inputVars, nodeVars, logVars, crawlVars, fsVars, target_dir, phase, attempted, git_error, crResult,
                   crError, cleanups, gitVars>>

\* Lines 268-302: one iteration of the request loop.
Api_Request ==
    /\ pc = "api_loop"
    /\ \E out \in RequestOutcomes :
         /\ requests' = Append(requests, [attempt |-> attempt, verify |-> verify, out |-> out])
         /\ sent_branches' = sent_branches \cup {BranchArg}
         /\ CASE out = "ok" ->
                   /\ response' = TRUE
                   /\ pc' = "api_save"
                   /\ UNCHANGED <<attempt, verify, api_ssl_retry, sleeps, api_error, outcomes>>
              [] out # "ok" /\ LoopContinues(out, attempt, IsGithubEnterprise(repo_url),
                                             api_ssl_retry) ->
                   /\ IF InnerHandler(out) = "SSLError"
                      THEN /\ verify' = "off"
                           /\ api_ssl_retry' = TRUE
                           /\ UNCHANGED sleeps
                      ELSE /\ sleeps' = Append(sleeps, Backoff(attempt))
                           /\ UNCHANGED <<verify, api_ssl_retry>>
                   /\ attempt' = attempt + 1
                   /\ pc' = AfterContinue(attempt)
                   /\ UNCHANGED <<response, api_error, outcomes>>
              [] OTHER ->
                   /\ api_error' = IF out = "ssl_cert"
                                   THEN "api: SSL certificate verification failed"
                                   ELSE OuterMessage(out)
                   /\ outcomes' = Append(outcomes, "err")
                   /\ pc' = "cr_ret"
                   /\ UNCHANGED <<attempt, verify, api_ssl_retry, sleeps, response>>
    /\ UNCHANGED <<inputVars, nodeVars, lookups, walked, cleanup_calls, crawlVars, fsVars, target_dir,
                   phase, attempted, git_error, crResult, crError, cleanups, gitVars>>

\* if os.path.exists(zip_path): os.remove(zip_path)   (both except clauses)
WithoutZip(d) == [d EXCEPT !.content = @ \ {"repo.zip"}]

\* Lines 305-322: write the response body to target_dir/repo.zip. With no
\* response bound (the loop ended by `continue`), open() creates the file and
\* response.iter_content raises UnboundLocalError.
Api_Save ==
    /\ pc = "api_save"
    /\ \E w \in {"written", "empty", "error"} :
         LET d == [exists |-> TRUE, content |-> ws.content \cup {"repo.zip"}] IN
         IF response /\ w = "written"
         THEN /\ ws' = d
              /\ pc' = "api_extract"
              /\ UNCHANGED <<api_error, outcomes>>
         ELSE /\ ws' = WithoutZip(d)
              /\ api_error' = "api: failed to extract repository"
              /\ outcomes' = Append(outcomes, "err")
              /\ pc' = "cr_ret"
    /\ UNCHANGED <<inputVars, nodeVars, logVars, crawlVars, sibling, target_dir, phase, attempted, git_error, crResult,
                   crError, cleanups, gitVars, apiVars>>

\* Lines 324-326: zip_ref.extractall(target_dir). The archive holds one
\* top-level directory (dir) or only top-level files (loose); it is no zip file
\* at all (badzip), or extraction raises after some entries were written (partial).
Api_Extract ==
    /\ pc = "api_extract"
    /\ \E x \in {"dir", "loose", "badzip", "partial"} :
         CASE x = "dir" ->
                /\ ws' = [ws EXCEPT !.content = @ \cup {"extracted"}]
                /\ pc' = "api_find"
                /\ UNCHANGED <<api_error, outcomes>>
           [] x = "loose" ->
                /\ ws' = [ws EXCEPT !.content = @ \cup {"loose"}]
                /\ pc' = "api_find"
                /\ UNCHANGED <<api_error, outcomes>>
           [] x = "badzip" ->
                /\ ws' = WithoutZip(ws)
                /\ api_error' = "api: not a valid zip file"
                /\ outcomes' = Append(outcomes, "err")
                /\ pc' = "cr_ret"
           [] OTHER ->
                /\ ws' = WithoutZip([ws EXCEPT !.content = @ \cup {"partial"}])
                /\ api_error' = "api: failed to extract repository"
                /\ outcomes' = Append(outcomes, "err")
                /\ pc' = "cr_ret"
    /\ UNCHANGED <<inputVars, nodeVars, logVars, crawlVars, sibling, target_dir, phase, attempted, git_error, crResult,
                   crError, cleanups, gitVars, apiVars>>

\* Lines 328-334: remove repo.zip, look for the extracted directory.
Api_FindExtracted ==
    /\ pc = "api_find"
    /\ ws' = WithoutZip(ws)
    /\ IF "extracted" \in ws.content
       THEN /\ pc' = "api_move"
            /\ UNCHANGED <<api_error, outcomes>>
       ELSE /\ api_error' = "api: failed to extract repository"
            /\ outcomes' = Append(outcomes, "err")
            /\ pc' = "cr_ret"
    /\ UNCHANGED <<inputVars, nodeVars, logVars, crawlVars, sibling, target_dir, phase, attempted, git_error, crResult,
                   crError, cleanups, gitVars, apiVars>>

\* Lines 337-344: remove a stale target_dir + "_temp", move the extracted
\* directory there.
Api_MoveToTemp ==
    /\ pc = "api_move"
    /\ \E moved \in BOOLEAN :
         IF moved
         THEN /\ ws' = [ws EXCEPT !.content = @ \ {"extracted"}]
              /\ sibling' = TRUE
              /\ pc' = "api_replace"
              /\ UNCHANGED <<api_error, outcomes>>
         ELSE /\ api_error' = "api: failed to extract repository"
              /\ outcomes' = Append(outcomes, "err")
              /\ pc' = "cr_ret"
              /\ UNCHANGED <<ws, sibling>>
    /\ UNCHANGED <<inputVars, nodeVars, logVars, crawlVars, target_dir, phase, attempted, git_error, crResult,
                   crError, cleanups, gitVars, apiVars>>

\* Lines 347-351: shutil.rmtree(target_dir); shutil.move(temp_dir, target_dir).
Api_Replace ==
    /\ pc = "api_replace"
    /\ \E r \in {"replaced", "rmtree raises", "move raises"} :
         CASE r = "replaced" ->
                /\ ws' = [exists |-> TRUE, content |-> {"tree"}]
                /\ sibling' = FALSE
                /\ outcomes' = Append(outcomes, "ok")
                /\ UNCHANGED api_error
           [] r = "rmtree raises" ->
                /\ api_error' = "api: failed to extract repository"
                /\ outcomes' = Append(outcomes, "err")
                /\ UNCHANGED <<ws, sibling>>
           [] OTHER ->
                /\ ws' = NoDir
                /\ api_error' = "api: failed to extract repository"
                /\ outcomes' = Append(outcomes, "err")
                /\ UNCHANGED sibling
    /\ pc' = "cr_ret"
    /\ UNCHANGED <<inputVars, nodeVars, logVars, crawlVars, target_dir, phase, attempted, git_error, crResult,
                   crError, cleanups, gitVars, apiVars>>

\* ------------------------------------------------------ crawl_github_files

\* fnmatch.fnmatch(name, pattern) for patterns of literal characters and "*".
RECURSIVE FnMatch(_, _)
FnMatch(name, pat) ==
    IF pat = <<>> THEN name = <<>>
    ELSE IF Head(pat) = "*"
         THEN FnMatch(name, Tail(pat)) \/ (name # <<>> /\ FnMatch(Tail(name), pat))
    ELSE name # <<>> /\ Head(name) = Head(pat) /\ FnMatch(Tail(name), Tail(pat))

\* The file name of a path (the `filename` os.walk yields).
Basename(path) == LET parts == Split(path, "/") IN parts[Len(parts)]

\* Mutant of ShouldIncludeFile: a file that matches an include pattern is
\* included whatever the exclude patterns.
ShouldIncludeFile_IncludeWins(file_path, file_name) ==
    IF include_patterns = NoPatterns
    THEN ~(\E p \in exclude_patterns : FnMatch(file_path, p))
    ELSE \E p \in include_patterns : FnMatch(file_name, p)

\* Mutant of ShouldIncludeFile: without include patterns only Python sources
\* are included.
ShouldIncludeFile_DefaultPy(file_path, file_name) ==
    /\ IF include_patterns = NoPatterns
       THEN FnMatch(file_name, <<"*",".","p","y">>)
       ELSE \E p \in include_patterns : FnMatch(file_name, p)
    /\ ~(\E p \in exclude_patterns : FnMatch(file_path, p))

\* should_include_file(file_path, file_name), lines 48-63.
ShouldIncludeFile(file_path, file_name) ==
    LET include_file ==
            IF include_patterns = NoPatterns THEN TRUE
            ELSE \E p \in include_patterns : FnMatch(file_name, p)
    IN IF exclude_patterns # NoPatterns /\ include_file
       THEN ~(\E p \in exclude_patterns : FnMatch(file_path, p))
       ELSE include_file

\* '/'.join(parts[i:]) with i counted from 1.
RECURSIVE JoinFrom(_, _)
JoinFrom(parts, i) ==
    IF i > Len(parts) THEN <<>>
    ELSE IF i = Len(parts) THEN parts[i]
    ELSE parts[i] \o <<"/">> \o JoinFrom(parts, i + 1)

\* if len(path_parts) > 2 and 'tree' == path_parts[2]
HasTreeMarker(parts) == Len(parts) > 2 /\ parts[3] = TREE

\* next((name for name in branch_names if relevant_path.startswith(name)), None)
RECURSIVE FirstPrefix(_, _)
FirstPrefix(names, relevant_path) ==
    IF names = <<>> THEN None
    ELSE IF StartsWith(relevant_path, Head(names)) THEN Head(names)
    ELSE FirstPrefix(Tail(names), relevant_path)

\* Lines 140-143: the subdirectory that follows the ref.
SubdirOf(relevant_path, r) ==
    IF StartsWith(relevant_path, r)
    THEN LStrip(SubSeq(relevant_path, Len(r) + 1, Len(relevant_path)), "/")
    ELSE <<>>

\* os.path.exists(os.path.join(repo_path, subdir)) in a workspace holding repo.
SubdirExists(repo, dir) ==
    \E i \in 1..Len(repo) : repo[i].path = dir \/ StartsWith(repo[i].path, dir \o <<"/">>)

\* The files os.walk(base_path) yields.
UnderBase(repo, base) ==
    IF base = <<>> THEN repo
    ELSE SelectSeq(repo, LAMBDA f : StartsWith(f.path, base \o <<"/">>))

\* os.path.relpath(abs_path, base_path) / os.path.relpath(abs_path, repo_path)
RelPath(f, base) ==
    IF base = <<>> THEN f.path ELSE SubSeq(f.path, Len(base) + 2, Len(f.path))

\* base_path differs from repo_path: if subdir and use_relative_paths
BaseDir == IF subdir # <<>> /\ use_relative_paths THEN subdir ELSE <<>>

\* Lines 42-74 and 111: split the URL, look for the tree marker.
Crawl_Parse ==
    /\ pc = "crawl_start"
    /\ LET parts == PathParts(repo_url) IN
       IF Len(parts) < 2
       THEN /\ crawlResult' = "raised"
            /\ pc' = "crawl_done"
            /\ UNCHANGED clone_branch
       ELSE IF HasTreeMarker(parts)
       THEN /\ pc' = "crawl_branches"
            /\ UNCHANGED <<crawlResult, clone_branch>>
       ELSE /\ clone_branch' = branch
            /\ pc' = "cr_start"
            /\ UNCHANGED crawlResult
    /\ UNCHANGED <<inputVars, nodeVars, logVars, fsVars, crVars, cleanups, gitVars, apiVars, branches, ref, subdir,
                   walk, files, skipped_files, stats>>

\* Lines 81-100 and 114-119: fetch_branches; nothing is returned without branches.
Crawl_FetchBranches ==
    /\ pc = "crawl_branches"
    /\ \E answer \in BranchAnswers :
         /\ branches' = answer
         /\ lookups' = Append(lookups, [call |-> "fetch_branches", arg |-> <<>>,
                                        ok |-> Len(answer) > 0])
         /\ IF Len(answer) = 0
            THEN /\ crawlResult' = "None"
                 /\ pc' = "crawl_done"
            ELSE /\ pc' = "crawl_resolve"
                 /\ UNCHANGED crawlResult
    /\ UNCHANGED <<inputVars, nodeVars, walked, sent_branches, cleanup_calls, fsVars, crVars, cleanups,
                   gitVars, apiVars, ref, subdir, clone_branch, walk, files, skipped_files,
                   stats>>

\* clone_branch = branch if branch != "main" else ref   (line 149)
CloneBranch(b, r) == IF b # MAIN THEN b ELSE r

\* Lines 121-149: resolve ref and subdir from the path after the marker.
Crawl_Resolve ==
    /\ pc = "crawl_resolve"
    /\ LET parts == PathParts(repo_url)
           relevant_path == JoinFrom(parts, 4)
           byBranch == FirstPrefix(branches, relevant_path)
           Resolved(r) ==
               /\ ref' = r
               /\ subdir' = SubdirOf(relevant_path, r)
               /\ clone_branch' = CloneBranch(branch, r)
               /\ pc' = "cr_start"
               /\ UNCHANGED crawlResult
       IN IF byBranch # None
          THEN /\ Resolved(byBranch)
               /\ UNCHANGED lookups
          ELSE IF Len(parts) < 4
          THEN \* tree = path_parts[3] raises IndexError
               /\ crawlResult' = "raised"
               /\ pc' = "crawl_done"
               /\ UNCHANGED <<ref, subdir, clone_branch, lookups>>
          ELSE \E tree_exists \in BOOLEAN :
                 /\ lookups' = Append(lookups, [call |-> "check_tree", arg |-> parts[4],
                                                ok |-> tree_exists])
                 /\ IF tree_exists
                    THEN Resolved(parts[4])
                    ELSE /\ crawlResult' = "None"
                         /\ pc' = "crawl_done"
                         /\ UNCHANGED <<ref, subdir, clone_branch>>
    /\ UNCHANGED <<inputVars, nodeVars, walked, sent_branches, cleanup_calls, fsVars, crVars, cleanups,
                   gitVars, apiVars, branches, walk, files, skipped_files, stats>>

\* Lines 150-167 and 232-240, and the except clause for a clone_repository
\* that raised: the workspace holds the repository the transport fetched.
Crawl_AfterClone ==
    /\ pc = "cr_done"
    /\ entry \in CrawlEntries
    /\ IF crResult = "raised"
       THEN /\ crawlResult' = "dict"
            /\ stats' = [error |-> "clone_repository raised"]
            /\ pc' = "crawl_done"
            /\ UNCHANGED <<ws, cleanups, walk>>
       ELSE \E repo \in Repos :
              IF BaseDir # <<>> /\ ~SubdirExists(repo, BaseDir)
              THEN \E removed \in RmOutcomes(ws) :
                     /\ ws' = AfterCleanup(ws, removed)
                     /\ cleanups' = Append(cleanups, [by |-> "crawl_github_files",
                                                      removed |-> removed])
                     /\ crawlResult' = "dict"
                     /\ stats' = [error |-> "Subdirectory not found"]
                     /\ pc' = "crawl_done"
                     /\ UNCHANGED walk
              ELSE /\ walk' = UnderBase(repo, BaseDir)
                   /\ pc' = "crawl_walk"
                   /\ UNCHANGED <<ws, cleanups, crawlResult, stats>>
    /\ UNCHANGED <<inputVars, nodeVars, logVars, sibling, crVars, gitVars, apiVars, branches, ref, subdir,
                   clone_branch, files, skipped_files>>

\* Mutant of TooLarge: no file is too large.
TooLarge_Never(file_size, limit) == FALSE

\* Mutant of TooLarge: a file of exactly the limit is too large.
TooLarge_Inclusive(file_size, limit) == file_size >= limit

\* if file_size > max_file_size   (lines 185, 253)
TooLarge(file_size, limit) == file_size > limit

\* What reading a file raises: open(..., encoding="utf-8-sig").read() raises
\* UnicodeDecodeError on content that is not UTF-8.
ReadRaises(f) == IF f.decodes THEN "nothing" ELSE "UnicodeDecodeError"

\* Mutant of ReadHandlerCatches: only I/O errors are caught around the read.
ReadHandlerCatches_OnlyOSError(exc) == exc = "OSError"

\* except Exception as e   (lines 201, 269): the errors a read can raise.
ReadHandlerCatches(exc) == exc \in {"UnicodeDecodeError", "OSError"}

\* Lines 170-202 and 243-270: one file of the walk. A file whose size cannot
\* be read is passed over (lines 182-183). Every other branch prints the
\* relative path; a path that cannot be encoded makes print raise, which the
\* except clause of lines 221/289 turns into an error result, as it does an
\* error of the read that its handler does not catch.
Crawl_File ==
    /\ pc = "crawl_walk"
    /\ walk # <<>>
    /\ LET f == Head(walk)
           rel_path == RelPath(f, BaseDir)
           Continue ==
               /\ walk' = Tail(walk)
               /\ walked' = Append(walked, f)
               /\ pc' = "crawl_walk"
               /\ UNCHANGED <<crawlResult, stats>>
           Abort(e) ==
               /\ crawlResult' = "dict"
               /\ files' = {}
               /\ stats' = [error |-> e]
               /\ pc' = "crawl_done"
               /\ UNCHANGED <<walk, walked, skipped_files>>
       IN IF ~f.stat
          THEN Continue /\ UNCHANGED <<files, skipped_files>>
          ELSE IF ~f.prints
          THEN Abort("UnicodeEncodeError")
          ELSE IF TooLarge(f.size, max_file_size)
          THEN /\ Continue
               /\ skipped_files' = Append(skipped_files, <<rel_path, f.size>>)
               /\ UNCHANGED files
          ELSE IF ~ShouldIncludeFile(rel_path, Basename(f.path))
          THEN Continue /\ UNCHANGED <<files, skipped_files>>
          ELSE IF ReadRaises(f) = "nothing"
          THEN /\ Continue
               /\ files' = files \cup {rel_path}
               /\ UNCHANGED skipped_files
          ELSE IF ReadHandlerCatches(ReadRaises(f))
          THEN Continue /\ UNCHANGED <<files, skipped_files>>
          ELSE Abort(ReadRaises(f))
    /\ UNCHANGED <<inputVars, nodeVars, lookups, sent_branches, cleanup_calls, fsVars, crVars, cleanups,
                   gitVars, apiVars, branches, ref, subdir, clone_branch>>

\* Lines 204-219 and 272-287: cleanup_repository(repo_path) and the result.
Crawl_Finish ==
    /\ pc = "crawl_walk"
    /\ walk = <<>>
    /\ \E removed \in RmOutcomes(ws) :
         /\ ws' = AfterCleanup(ws, removed)
         /\ cleanups' = Append(cleanups, [by |-> "crawl_github_files", removed |-> removed])
    /\ crawlResult' = "dict"
    /\ stats' = [downloaded_count |-> Cardinality(files),
                 skipped_count |-> Len(skipped_files),
                 skipped_files |-> skipped_files,
                 base_path |-> IF use_relative_paths THEN subdir ELSE None,
                 source |-> "git_clone",
                 branch |-> clone_branch]
    /\ pc' = "crawl_done"
    /\ UNCHANGED <<inputVars, nodeVars, logVars, sibling, crVars, gitVars, apiVars, branches, ref, subdir,
                   clone_branch, walk, files, skipped_files>>

\* ------------------------------------------------------------- FetchRepo

\* nodes.py lines 72-77, after crawl_github_files has ended: an exception of
\* the crawl propagates; result.get on None raises AttributeError; an empty
\* files_list raises ValueError("Failed to fetch files"); otherwise the list
\* is returned.
Fetch_Exec ==
    /\ pc = "crawl_done"
    /\ entry = "FetchRepo.exec"
    /\ exec_res' = CASE crawlResult = "raised" -> "propagated"
                     [] crawlResult = "None" -> "AttributeError"
                     [] crawlResult = "dict" /\ files = {} ->
                            "ValueError: Failed to fetch files"
                     [] OTHER -> "files_list"
    /\ pc' = "fetch_done"
    /\ UNCHANGED <<inputVars, logVars, fsVars, crVars, cleanups, gitVars, apiVars, crawlVars,
                   num_abstractions, ordered_indices_raw, ordered_indices, seen_indices,
                   relationships, validated_relationships, position>>

\* ------------------------------------------------ values of the LLM answer

MaxAbstractions == 3
MaxEntries == 3
MaxRels == 2

\* A value of the parsed YAML: kind is its Python type, val its number (for
\* int and bool) and text its str() (for the other types).
IntEntry(k) == [kind |-> "int", val |-> k, text |-> <<>>]
StrEntry(t) == [kind |-> "str", val |-> 0, text |-> t]
\* "1 # B"
E_HASH == StrEntry(<<"1", " ", "#", " ", "B">>)
\* " 2 "
E_PADDED == StrEntry(<<" ", "2", " ">>)
\* "x"
E_WORD == StrEntry(<<"x">>)
\* "1_0"
E_UNDERSCORE == StrEntry(<<"1", "_", "0">>)
\* "# 0"
E_HASH_FIRST == StrEntry(<<"#", " ", "0">>)
\* None
E_NONE == [kind |-> "NoneType", val |-> 0, text |-> <<"N", "o", "n", "e">>]
\* 1.5
E_FLOAT == [kind |-> "float", val |-> 0, text |-> <<"1", ".", "5">>]
\* True (an int for isinstance, 1 as a number, "True" as a string)
E_TRUE == [kind |-> "bool", val |-> 1, text |-> <<"T", "r", "u", "e">>]

DigitChars == <<"0", "1", "2", "3", "4", "5", "6", "7", "8", "9">>
IsDigit(c) == \E d \in 1..10 : DigitChars[d] = c
DigitVal(c) == (CHOOSE d \in 1..10 : DigitChars[d] = c) - 1

\* str(k) of a non-negative int
RECURSIVE Digits(_)
Digits(k) ==
    IF k < 10 THEN <<DigitChars[k + 1]>>
    ELSE Digits(k \div 10) \o <<DigitChars[(k % 10) + 1]>>

\* str(value)
PyStr(value) ==
    IF value.kind = "int"
    THEN IF value.val < 0 THEN <<"-">> \o Digits(-value.val) ELSE Digits(value.val)
    ELSE value.text

\* The value of a run of digits and single underscores.
RECURSIVE DigitsValue(_)
DigitsValue(t) ==
    IF t = <<>> THEN 0
    ELSE IF t[Len(t)] = "_" THEN DigitsValue(SubSeq(t, 1, Len(t) - 1))
    ELSE 10 * DigitsValue(SubSeq(t, 1, Len(t) - 1)) + DigitVal(t[Len(t)])

\* int(t) of a string: surrounding blanks are ignored, then an optional sign
\* and digits that single underscores may separate; anything else raises
\* ValueError.
PyInt(t) ==
    LET body == Strip(t, " ")
        signed == body # <<>> /\ body[1] \in {"+", "-"}
        digits == IF signed THEN Tail(body) ELSE body
        wellFormed ==
            /\ digits # <<>>
            /\ IsDigit(digits[1])
            /\ IsDigit(digits[Len(digits)])
            /\ \A i \in 1..Len(digits) : IsDigit(digits[i]) \/ digits[i] = "_"
            /\ \A i \in 1..Len(digits) - 1 : ~(digits[i] = "_" /\ digits[i + 1] = "_")
    IN IF wellFormed
       THEN [raises |-> "nothing",
             val |-> IF signed /\ body[1] = "-" THEN -DigitsValue(digits)
                     ELSE DigitsValue(digits)]
       ELSE [raises |-> "ValueError", val |-> 0]

\* Mutant of InRange: only the upper bound is tested.
InRange_NoLowerBound(idx, n) == idx < n

\* 0 <= idx < num_abstractions
InRange(idx, n) == 0 <= idx /\ idx < n

\* Mutant of IndexHandlerCatches: the handler is except TypeError.
IndexHandlerCatches_OnlyTypeError(e) == e = "TypeError"

\* except (ValueError, TypeError)
IndexHandlerCatches(e) == e \in {"ValueError", "TypeError"}

\* --------------------------------------------------------- OrderChapters

OrderEntries ==
    {IntEntry(k) : k \in -1..MaxAbstractions} \cup
    {E_HASH, E_PADDED, E_WORD, E_UNDERSCORE, E_HASH_FIRST, E_NONE, E_FLOAT, E_TRUE}

\* The lists of at most n elements of S.
ListsUpTo(S, n) == UNION {[1..k -> S] : k \in 0..n}

\* OrderChapters.exec after the answer was parsed into a list.
InitOrderCall ==
    /\ entry = "OrderChapters.exec"
    /\ repo_url = URL_PUBLIC
    /\ supplied = None
    /\ disable_ssl = TRUE
    /\ ca_bundle = FALSE
    /\ ws = NoDir
    /\ sibling = FALSE
    /\ branch = MAIN
    /\ use_relative_paths = TRUE
    /\ max_file_size = MaxSize
    /\ include_patterns = NoPatterns
    /\ exclude_patterns = NoPatterns
    /\ pc = "order_loop"
    /\ exec_res = "pending"
    /\ num_abstractions \in 1..MaxAbstractions
    /\ ordered_indices_raw \in ListsUpTo(OrderEntries, MaxEntries)
    /\ ordered_indices = <<>>
    /\ seen_indices = {}
    /\ relationships = <<>>
    /\ validated_relationships = <<>>
    /\ position = 1

InitOrder == InitOrderCall /\ InitCallLocals

\* Lines 553-558: the index an entry of the list stands for.
OrderEntryIndex(e) ==
    IF e.kind \in {"int", "bool"}
    THEN [raises |-> "nothing", val |-> e.val]
    ELSE IF e.kind = "str" /\ Contains(e.text, <<"#">>)
    THEN PyInt(Strip(Split(e.text, "#")[1], " "))
    ELSE PyInt(Strip(PyStr(e), " "))

\* Lines 551-571: one iteration of the loop over ordered_indices_raw.
Order_Entry ==
    /\ pc = "order_loop"
    /\ position <= Len(ordered_indices_raw)
    /\ LET idx == OrderEntryIndex(ordered_indices_raw[position])
           Skip == /\ position' = position + 1
                   /\ UNCHANGED <<pc, exec_res, ordered_indices, seen_indices>>
       IN IF idx.raises # "nothing"
          THEN IF IndexHandlerCatches(idx.raises)
               THEN Skip
               ELSE /\ exec_res' = "raised"
                    /\ pc' = "order_done"
                    /\ UNCHANGED <<position, ordered_indices, seen_indices>>
          ELSE IF ~InRange(idx.val, num_abstractions)
          THEN Skip
          ELSE IF idx.val \in seen_indices
          THEN Skip
          ELSE /\ ordered_indices' = Append(ordered_indices, idx.val)
               /\ seen_indices' = seen_indices \cup {idx.val}
               /\ position' = position + 1
               /\ UNCHANGED <<pc, exec_res>>
    /\ UNCHANGED <<inputVars, logVars, fsVars, crVars, cleanups, gitVars, apiVars, crawlVars,
                   num_abstractions, ordered_indices_raw, relationships,
                   validated_relationships>>

\* list(range(n))
RangeList(n) == [i \in 1..n |-> i - 1]

\* Lines 577-580: the indices from i on that are not in seen, ascending.
RECURSIVE MissingFrom(_, _, _)
MissingFrom(i, n, seen) ==
    IF i >= n THEN <<>>
    ELSE (IF i \notin seen THEN <<i>> ELSE <<>>) \o MissingFrom(i + 1, n, seen)

\* Lines 573-594: the list is completed and returned.
Order_Finish ==
    /\ pc = "order_loop"
    /\ position > Len(ordered_indices_raw)
    /\ LET completed ==
               IF Len(ordered_indices) # num_abstractions
               THEN LET filled == ordered_indices \o MissingFrom(0, num_abstractions, seen_indices)
                    IN IF Len(filled) # num_abstractions
                       THEN RangeList(num_abstractions)
                       ELSE filled
               ELSE ordered_indices
       IN ordered_indices' = IF Len(completed) # num_abstractions
                             THEN RangeList(num_abstractions)
                             ELSE completed
    /\ exec_res' = "returned"
    /\ pc' = "order_done"
    /\ UNCHANGED <<inputVars, logVars, fsVars, crVars, cleanups, gitVars, apiVars, crawlVars,
                   num_abstractions, ordered_indices_raw, seen_indices, relationships,
                   validated_relationships, position>>

\* -------------------------------------------------- AnalyzeRelationships

\* "Related to"
RELATED_TO == <<"R", "e", "l", "a", "t", "e", "d", " ", "t", "o">>
RelKeys == {"from_abstraction", "to_abstraction", "label"}

\* An element of the relationships list: a mapping with these keys, or
\* something that is no mapping.
RelDict(keys, f, t, l) ==
    [is_dict |-> TRUE, keys |-> keys, from_abstraction |-> f, to_abstraction |-> t,
     label |-> l]
REL_NOT_DICT ==
    [is_dict |-> FALSE, keys |-> {}, from_abstraction |-> E_NONE,
     to_abstraction |-> E_NONE, label |-> E_NONE]
REL_NO_LABEL == RelDict({"from_abstraction", "to_abstraction"}, IntEntry(0), IntEntry(0), E_NONE)
REL_BAD_LABEL == RelDict(RelKeys, IntEntry(0), IntEntry(0), IntEntry(1))

RelIndexValues == {IntEntry(k) : k \in -1..(MaxAbstractions - 1)} \cup {E_HASH, E_TRUE}
RelEntries ==
    {REL_NOT_DICT, REL_NO_LABEL, REL_BAD_LABEL} \cup
    {RelDict(RelKeys, f, t, E_WORD) : f \in RelIndexValues, t \in RelIndexValues}

\* AnalyzeRelationships.exec after the checks of lines 389-398 passed.
InitRelationsCall ==
    /\ entry = "AnalyzeRelationships.exec"
    /\ repo_url = URL_PUBLIC
    /\ supplied = None
    /\ disable_ssl = TRUE
    /\ ca_bundle = FALSE
    /\ ws = NoDir
    /\ sibling = FALSE
    /\ branch = MAIN
    /\ use_relative_paths = TRUE
    /\ max_file_size = MaxSize
    /\ include_patterns = NoPatterns
    /\ exclude_patterns = NoPatterns
    /\ pc = "rel_loop"
    /\ exec_res = "pending"
    /\ num_abstractions \in 1..MaxAbstractions
    /\ ordered_indices_raw = <<>>
    /\ ordered_indices = <<>>
    /\ seen_indices = {}
    /\ relationships \in ListsUpTo(RelEntries, MaxRels)
    /\ validated_relationships = <<>>
    /\ position = 1

InitRelations == InitRelationsCall /\ InitCallLocals

\* int(str(value).split("#")[0].strip())
RelIndex(value) == PyInt(Strip(Split(PyStr(value), "#")[1], " "))

\* Lines 402-432: one iteration of the loop over the relationships.
Rel_Entry ==
    /\ pc = "rel_loop"
    /\ position <= Len(relationships)
    /\ LET rel == relationships[position]
           from_idx == RelIndex(rel.from_abstraction)
           to_idx == RelIndex(rel.to_abstraction)
           Skip == /\ position' = position + 1
                   /\ UNCHANGED <<pc, exec_res, validated_relationships>>
           Raise(e) ==
               IF IndexHandlerCatches(e)
               THEN Skip
               ELSE /\ exec_res' = "raised"
                    /\ pc' = "rel_done"
                    /\ UNCHANGED <<position, validated_relationships>>
       IN IF ~rel.is_dict \/ ~(RelKeys \subseteq rel.keys)
          THEN Skip
          ELSE IF rel.label.kind # "str"
          THEN Skip
          ELSE IF from_idx.raises # "nothing"
          THEN Raise(from_idx.raises)
          ELSE IF to_idx.raises # "nothing"
          THEN Raise(to_idx.raises)
          ELSE IF ~(InRange(from_idx.val, num_abstractions)
                    /\ InRange(to_idx.val, num_abstractions))
          THEN Skip
          ELSE /\ validated_relationships' =
                      Append(validated_relationships,
                             [from |-> from_idx.val, to |-> to_idx.val,
                              label |-> rel.label.text])
               /\ position' = position + 1
               /\ UNCHANGED <<pc, exec_res>>
    /\ UNCHANGED <<inputVars, logVars, fsVars, crVars, cleanups, gitVars, apiVars, crawlVars,
                   num_abstractions, ordered_indices_raw, ordered_indices, seen_indices,
                   relationships>>

\* Lines 438-445: for each i the first j of range(i + 1, n), if there is one.
RECURSIVE DefaultRelationships(_, _)
DefaultRelationships(i, n) ==
    IF i >= n THEN <<>>
    ELSE (IF i + 1 < n
          THEN <<[from |-> i, to |-> i + 1, label |-> RELATED_TO]>>
          ELSE <<>>) \o DefaultRelationships(i + 1, n)

\* Lines 434-451: the default relationships if none is valid, and the return.
Rel_Finish ==
    /\ pc = "rel_loop"
    /\ position > Len(relationships)
    /\ validated_relationships' =
           IF validated_relationships = <<>>
           THEN DefaultRelationships(0, num_abstractions)
           ELSE validated_relationships
    /\ exec_res' = "returned"
    /\ pc' = "rel_done"
    /\ UNCHANGED <<inputVars, logVars, fsVars, crVars, cleanups, gitVars, apiVars, crawlVars,
                   num_abstractions, ordered_indices_raw, ordered_indices, seen_indices,
                   relationships, position>>

\* --------------------------------------------------------- specification

Next ==
    \/ CR_Prepare
    \/ CR_Dispatch
    \/ CR_Return
    \/ CR_Fallback
    \/ CR_RaiseGitError
    \/ CR_RaiseBoth
    \/ Git_Start
    \/ Git_Clone
    \/ Git_Retry
    \/ Api_Start
    \/ Api_Request
    \/ Api_Save
    \/ Api_Extract
    \/ Api_FindExtracted
    \/ Api_MoveToTemp
    \/ Api_Replace

Spec == Init /\ [][Next]_vars

NextCrawl ==
    \/ Crawl_Parse
    \/ Crawl_FetchBranches
    \/ Crawl_Resolve
    \/ Crawl_AfterClone
    \/ Crawl_File
    \/ Crawl_Finish
    \/ Next

SpecCrawl == InitCrawl /\ [][NextCrawl]_vars

NextFetch ==
    \/ Fetch_Exec
    \/ NextCrawl

SpecFetch == InitFetch /\ [][NextFetch]_vars

NextOrder ==
    \/ Order_Entry
    \/ Order_Finish

SpecOrder == InitOrder /\ [][NextOrder]_vars

NextRelations ==
    \/ Rel_Entry
    \/ Rel_Finish

SpecRelations == InitRelations /\ [][NextRelations]_vars

NextCleanup == Cleanup_Call

SpecCleanup == InitCleanup /\ [][NextCleanup]_vars

\* ------------------------------------------------------------ properties

\* The modelled URLs by the class of their host, read off the URLs themselves.
EnterpriseUrls == {URL_ENTERPRISE, URL_SHORT, URL_TREE_ENT}
PublicHostUrls == {URL_PUBLIC, URL_PUBLIC_UPPER, URL_TREE, URL_TREE_ONLY}

Tried(t) == \E i \in 1..Len(attempted) : attempted[i] = t
AllFailed ==
    /\ Len(outcomes) = Len(attempted)
    /\ \A i \in 1..Len(outcomes) : outcomes[i] = "err"
SomeSucceeded == \E i \in 1..Len(outcomes) : outcomes[i] = "ok"
BothFailed == crResult = "raised" /\ Tried("clone") /\ Tried("archive") /\ AllFailed

\* C1 as stated: once the workspace is allocated, clone_repository raises only
\* if both the clone and the archive transport were attempted and both failed;
\* if a transport succeeds it returns the workspace path and raises nothing.
C1_Original ==
    /\ (crResult = "raised" /\ attempted # <<>>) =>
           (Tried("clone") /\ Tried("archive") /\ AllFailed)
    /\ (pc = "cr_done" /\ SomeSucceeded) => crResult = "returned"

\* C1 amended: once the workspace is allocated, clone_repository raises only
\* if every transport it attempted failed, the clone transport among them, and
\* the archive transport too unless the host is not an enterprise host and the
\* URL does not contain "github.com" (there is no archive fallback then); if a
\* transport succeeds it returns the existing workspace path and raises nothing.
C1_RaisesOnlyIfAllAttemptedFailed ==
    /\ (crResult = "raised" /\ attempted # <<>>) =>
           /\ AllFailed
           /\ Tried("clone")
           /\ ~Tried("archive") =>
                  (repo_url \notin EnterpriseUrls /\ ~Contains(repo_url, GITHUB_COM))
    /\ (pc = "cr_done" /\ SomeSucceeded) =>
           (crResult = "returned" /\ crError = {} /\ target_dir # None /\ ws.exists)

C1_Witness == BothFailed /\ repo_url = URL_PUBLIC

\* C2: for an enterprise host the archive download is the first transport
\* attempted, and the clone transport is attempted only after the archive
\* download has failed.
C2_EnterpriseArchiveFirst ==
    repo_url \in EnterpriseUrls =>
        /\ attempted # <<>> => attempted[1] = "archive"
        /\ (pc \notin {"cr_start", "cr_dispatch"} /\ crError \cap {"create", "not writable"} = {})
               => attempted # <<>>
        /\ (Tried("clone") \/ clone_calls # <<>>) =>
               (attempted = <<"archive", "clone">> /\ outcomes # <<>> /\ outcomes[1] = "err")

C2_Witness ==
    /\ repo_url \in EnterpriseUrls
    /\ attempted = <<"archive", "clone">>
    /\ clone_calls # <<>>
    /\ crResult = "returned"

\* C3 as stated: for a non-enterprise host the clone transport is attempted
\* first; after a clone failure the archive download is attempted if and only
\* if the host is github.com; no archive download for any other remote.
C3_Claim ==
    repo_url \notin EnterpriseUrls =>
        /\ attempted # <<>> => attempted[1] = "clone"
        /\ Tried("archive") => repo_url \in PublicHostUrls
        /\ (pc = "cr_done" /\ outcomes # <<>> /\ outcomes[1] = "err"
              /\ repo_url \in PublicHostUrls) => Tried("archive")

\* C4 as stated: on no failure path does clone_repository delete a target
\* directory the caller supplied.
C4_Claim ==
    supplied # None =>
        \A i \in 1..Len(cleanups) :
            ~(cleanups[i].by = "clone_repository" /\ cleanups[i].removed)

\* C5 as stated: without a target directory, when both transports fail the
\* failure carries both underlying messages and the allocated workspace no
\* longer exists.
C5_Original ==
    (supplied = None /\ BothFailed) =>
        /\ crError = {api_error, git_error}
        /\ api_error # "none" /\ git_error # "none"
        /\ ~ws.exists

\* C5 amended: without a target directory, when both transports fail the
\* failure carries both underlying messages, and cleanup_repository was called
\* on the allocated workspace: the workspace no longer exists unless its
\* removal itself failed (which is printed, not raised).
C5_BothMessagesAndCleanup ==
    (supplied = None /\ BothFailed) =>
        /\ crError = {api_error, git_error}
        /\ api_error # "none" /\ git_error # "none"
        /\ Len(cleanups) = 1
        /\ cleanups[1].by = "clone_repository"
        /\ ws.exists => ~cleanups[1].removed

C5_Witness ==
    /\ supplied = None
    /\ BothFailed
    /\ ~ws.exists
    /\ Len(cleanups) = 1
    /\ cleanups[1].removed

\* C6 as stated (a removal that itself failed set aside): when
\* crawl_github_files returns after clone_repository returned the implicitly
\* allocated workspace, the workspace no longer exists, on every return path.
C6_Claim ==
    (pc = "crawl_done" /\ crResult = "returned") =>
        \/ ~ws.exists
        \/ \E i \in 1..Len(cleanups) :
             cleanups[i].by = "crawl_github_files" /\ ~cleanups[i].removed

\* C7: in the clone transport a TLS-verification failure of the first clone on
\* an enterprise host is followed by exactly one retry, made with verification
\* off; a retry that succeeds makes the transport return without an error; a
\* retry that fails makes it raise, and there is no third clone; on a
\* non-enterprise host a TLS failure is never retried.
C7_OneTlsRetryOnEnterprise ==
    LET n == Len(clone_calls)
        enterprise == repo_url \in EnterpriseUrls
        cloneAt == CHOOSE i \in 1..Len(attempted) : attempted[i] = "clone"
        finished == Tried("clone") /\ Len(outcomes) >= cloneAt
    IN /\ n <= 2
       /\ (n >= 1 /\ clone_calls[1].out = "ssl" /\ enterprise) =>
              (IF n = 1 THEN pc = "git_retry" /\ git_noverify
               ELSE clone_calls[2].noverify)
       /\ (n >= 1 /\ clone_calls[1].out = "ssl" /\ ~enterprise) =>
              (n = 1 /\ finished /\ outcomes[cloneAt] = "err"
                 /\ git_error = "git: SSL certificate issue")
       /\ n = 2 => (enterprise /\ clone_calls[1].out = "ssl" /\ finished)
       /\ (n = 2 /\ clone_calls[2].out = "ok") =>
              (outcomes[cloneAt] = "ok" /\ git_error = "none")
       /\ (n = 2 /\ clone_calls[2].out # "ok") =>
              (outcomes[cloneAt] = "err"
                 /\ git_error = "git: clone failed even with SSL disabled")

C7_Witness ==
    /\ repo_url \in EnterpriseUrls
    /\ ~disable_ssl
    /\ Len(clone_calls) = 2
    /\ clone_calls[1] = [noverify |-> FALSE, out |-> "ssl"]
    /\ clone_calls[2] = [noverify |-> TRUE, out |-> "ok"]
    /\ crResult = "returned"

\* The request failures C8 speaks of: a connection reset or a timeout.
ResetOrTimeout == {"reset", "connect_timeout", "read_timeout"}

\* The backoffs slept before request i of the loop.
RECURSIVE BackoffsBefore(_)
BackoffsBefore(i) ==
    IF i <= 1 THEN <<>>
    ELSE BackoffsBefore(i - 1) \o
         (IF requests[i - 1].out \in ResetOrTimeout
          THEN <<2 ^ requests[i - 1].attempt>> ELSE <<>>)

\* C8 as stated: one call of the archive transport issues at most 3 requests;
\* a connection reset or a timeout on attempt k < 2 is followed by a backoff of
\* 2^k seconds and another attempt; on the third attempt it is raised.
C8_Claim ==
    /\ Len(requests) <= 3
    /\ \A i \in 1..Len(requests) :
         requests[i].out \in ResetOrTimeout =>
             IF requests[i].attempt < 2
             THEN /\ Len(requests) > i \/ pc = "api_loop"
                  /\ Len(sleeps) >= 1
                  /\ sleeps[Len(BackoffsBefore(i + 1))] = 2 ^ requests[i].attempt
             ELSE i = Len(requests) /\ pc # "api_loop" /\ pc # "api_save"

\* C9 as stated: in the archive transport the first TLS trust failure on an
\* enterprise host is followed by one further request made with verification
\* off, whichever attempt it occurs on; a later TLS trust failure, or one on a
\* non-enterprise host, raises without another TLS retry.
C9_Claim ==
    \A i \in 1..Len(requests) :
        requests[i].out = "ssl_cert" =>
            IF repo_url \in EnterpriseUrls
                 /\ \A j \in 1..(i - 1) : requests[j].out # "ssl_cert"
            THEN \/ pc = "api_loop" /\ i = Len(requests) /\ verify = "off"
                 \/ Len(requests) > i /\ requests[i + 1].verify = "off"
            ELSE i = Len(requests) /\ pc # "api_loop" /\ pc # "api_save"

\* The archive transport has returned or raised.
ArchiveFinished ==
    \E i \in 1..Len(attempted) : attempted[i] = "archive" /\ Len(outcomes) >= i

\* C10 as stated: whenever the archive transport has returned or raised, the
\* target workspace holds the whole archive content at its root or nothing of
\* the archive (no archive file, no partly or separately extracted entries).
C10_Claim ==
    ArchiveFinished =>
        ws.content \cap {"repo.zip", "partial", "extracted", "loose"} = {}

\* The modelled URLs that carry the tree marker, and for each the path after
\* the marker and its first segment, read off the URLs themselves.
TreeUrls == {URL_TREE, URL_TREE_ENT, URL_TREE_ONLY}
NoTreeUrls == {URL_PUBLIC, URL_OTHER, URL_SHORT}
Remainder ==
    CASE repo_url = URL_TREE -> <<"d","e","v","/","s">>
      [] repo_url = URL_TREE_ENT -> <<"d","e","v">>
      [] OTHER -> <<>>
NextSegment == IF repo_url \in {URL_TREE, URL_TREE_ENT} THEN DEV ELSE None

\* What follows name r in the path p, leading separators stripped.
RestAfter(p, r) == LStrip(SubSeq(p, Len(r) + 1, Len(p)), "/")

\* Branch b names the leading path segments of p.
IsSegmentPrefix(b, p) == b # <<>> /\ (p = b \/ StartsWith(p, b \o <<"/">>))

BranchNames == {branches[i] : i \in 1..Len(branches)}
CheckedTree == \E i \in 1..Len(lookups) : lookups[i].call = "check_tree"
ResolutionOver == pc \notin {"crawl_start", "crawl_branches", "crawl_resolve"}

\* C11 as stated: for a URL with a tree marker and a non-empty branch list of
\* which some name is a prefix of the path after the marker, the resolved ref
\* is a branch of the list that leads that path (for the path dev/s and a list
\* containing dev, the ref is dev, whatever other branches the list holds) and
\* the subpath is what follows it, leading separators stripped.
C11_Claim ==
    (repo_url \in TreeUrls /\ ResolutionOver
       /\ \E b \in BranchNames : IsSegmentPrefix(b, Remainder)) =>
        /\ ref \in BranchNames
        /\ IsSegmentPrefix(ref, Remainder)
        /\ subdir = RestAfter(Remainder, ref)

\* C12 as stated: for a URL with a tree marker an empty branch list is not
\* fatal: crawl_github_files does not finish before it has checked the next
\* path segment as a tree.
C12_Claim ==
    (repo_url \in TreeUrls /\ Len(lookups) >= 1 /\ ~lookups[1].ok /\ pc = "crawl_done") =>
        CheckedTree

\* C13 as stated: for a URL with a tree marker, a non-empty branch list and no
\* branch name that is a prefix of the path after the marker, the next path
\* segment alone is checked as a tree; if the tree exists it is the ref and
\* the rest of the path is the subpath; if it does not exist, or there is no
\* next segment, crawl_github_files ends with the unresolvable-reference
\* outcome (it reports and returns nothing) and no transport is attempted.
C13_Claim ==
    (repo_url \in TreeUrls /\ ResolutionOver /\ Len(lookups) >= 1 /\ lookups[1].ok
       /\ ~\E b \in BranchNames : StartsWith(Remainder, b)) =>
        IF NextSegment # None /\ CheckedTree /\ lookups[2].ok
        THEN /\ lookups[2].arg = NextSegment
             /\ ref = NextSegment
             /\ subdir = RestAfter(Remainder, NextSegment)
        ELSE /\ NextSegment # None => (CheckedTree /\ lookups[2].arg = NextSegment)
             /\ pc = "crawl_done"
             /\ crawlResult = "None"
             /\ attempted = <<>>
             /\ sent_branches = {}

\* crawl_github_files returned the result of a finished collection.
Collected == crawlResult = "dict" /\ "downloaded_count" \in DOMAIN stats

\* C14: for a URL without the tree marker no branch list and no tree is looked
\* up, no ref and no subpath is derived, every transport fetches exactly the
\* branch the caller passed, and that branch is the one the statistics report.
C14_NoMarkerUsesBranchArgument ==
    (entry = "crawl_github_files" /\ repo_url \in NoTreeUrls) =>
        /\ lookups = <<>>
        /\ ref = None
        /\ subdir = None
        /\ sent_branches \subseteq {branch}
        /\ Collected => (stats.branch = branch /\ stats.base_path = None)

C14_Witness ==
    /\ repo_url = URL_PUBLIC
    /\ branch = REL
    /\ Collected
    /\ stats.branch = REL
    /\ sent_branches = {REL}
    /\ Len(attempted) = 2

\* The walk is under way or has finished without an error result.
Collecting == pc = "crawl_walk" \/ Collected

\* The walked files whose size exceeds the limit.
Oversize(f) == f.stat /\ f.size > max_file_size
WithinSize(f) == f.stat /\ f.size <= max_file_size
MatchesExclude(path) == \E e \in exclude_patterns : FnMatch(path, e)
WalkedFiles == {walked[i] : i \in 1..Len(walked)}

\* C15: whatever the workspace, the limit and the patterns, no file larger
\* than max_file_size is among the collected files; such a file is recorded
\* in skipped_files whether or not it matches the patterns and whether or not
\* its content could be read (the size is checked first).
C15_SizeCeilingFirst ==
    \A f \in WalkedFiles :
        Oversize(f) =>
            /\ RelPath(f, BaseDir) \notin files
            /\ \E j \in 1..Len(skipped_files) :
                 skipped_files[j] = <<RelPath(f, BaseDir), f.size>>

C15_Witness ==
    /\ Collected
    /\ walked = <<F_A, F_B>>
    /\ \E i \in include_patterns : FnMatch(Basename(F_B.path), i)
    /\ exclude_patterns = NoPatterns
    /\ files = {F_A.path}
    /\ skipped_files = << <<F_B.path, F_B.size>> >>

\* C16: a file whose path matches an exclude pattern is never among the
\* collected files, also when its name matches an include pattern.
C16_ExcludePrecedence ==
    /\ \A path \in files : ~MatchesExclude(path)
    /\ Collecting =>
         \A f \in WalkedFiles : MatchesExclude(RelPath(f, BaseDir)) =>
             RelPath(f, BaseDir) \notin files

C16_Witness ==
    /\ Collected
    /\ F_D \in WalkedFiles
    /\ \E i \in include_patterns : FnMatch(Basename(F_D.path), i)
    /\ MatchesExclude(RelPath(F_D, BaseDir))
    /\ RelPath(F_D, BaseDir) \notin files
    /\ files # {}

\* C17 as stated: with no include patterns every walked file that matches no
\* exclude pattern and whose size is within the limit is collected.
C17_Original ==
    (Collecting /\ include_patterns = NoPatterns) =>
        \A f \in WalkedFiles :
            (WithinSize(f) /\ ~MatchesExclude(RelPath(f, BaseDir))) =>
                RelPath(f, BaseDir) \in files

\* C17 amended: with no include patterns every walked file that matches no
\* exclude pattern, whose size is within the limit and whose content reads as
\* UTF-8 text is collected, and no other file is.
C17_NoIncludeCollectsAllReadable ==
    (Collecting /\ include_patterns = NoPatterns) =>
        \A f \in WalkedFiles :
            RelPath(f, BaseDir) \in files <=>
                (WithinSize(f) /\ ~MatchesExclude(RelPath(f, BaseDir)) /\ f.decodes)

C17_Witness ==
    /\ Collected
    /\ include_patterns = NoPatterns
    /\ exclude_patterns # NoPatterns
    /\ walked = <<F_C, F_A, F_D>>
    /\ max_file_size = 2
    /\ files = {F_A.path}

\* C18: a file whose content cannot be read as UTF-8 is passed over: it is
\* neither collected nor recorded in skipped_files, which holds only files
\* skipped for their size; the collection is not aborted by it, the files
\* after it are still collected, and the result carries no error for it.
C18_UnreadableSkippedSilently ==
    /\ \A j \in 1..Len(skipped_files) : skipped_files[j][2] > max_file_size
    /\ "error" \in DOMAIN stats => stats.error \notin {"UnicodeDecodeError", "OSError"}
    /\ Collecting =>
         \A i \in 1..Len(walked) :
             (WithinSize(walked[i]) /\ ~walked[i].decodes) =>
                 /\ RelPath(walked[i], BaseDir) \notin files
                 /\ \A j \in 1..Len(skipped_files) :
                      skipped_files[j][1] # RelPath(walked[i], BaseDir)
                 /\ \A k \in (i + 1)..Len(walked) :
                      (WithinSize(walked[k]) /\ walked[k].decodes
                         /\ ShouldIncludeFile(RelPath(walked[k], BaseDir),
                                              Basename(walked[k].path))) =>
                          RelPath(walked[k], BaseDir) \in files

C18_Witness ==
    /\ Collected
    /\ walked = <<F_C, F_A, F_D>>
    /\ max_file_size = 2
    /\ include_patterns = NoPatterns
    /\ files = {F_A.path, F_D.path}
    /\ skipped_files = <<>>
    /\ "error" \notin DOMAIN stats

\* The <<path, size>> entries of the walked files larger than the limit, in
\* the order of the walk.
RECURSIVE OversizeEntries(_)
OversizeEntries(n) ==
    IF n = 0 THEN <<>>
    ELSE OversizeEntries(n - 1) \o
         (IF Oversize(walked[n])
          THEN << <<RelPath(walked[n], BaseDir), walked[n].size>> >> ELSE <<>>)

\* C19: in the result of a finished collection downloaded_count is the number
\* of returned files, skipped_count the number of entries of skipped_files,
\* and skipped_files holds exactly the walked files larger than max_file_size,
\* each with its path and its size.
C19_StatsCountTheCollection ==
    Collected =>
        /\ stats.downloaded_count = Cardinality(files)
        /\ stats.skipped_count = Len(stats.skipped_files)
        /\ stats.skipped_files = OversizeEntries(Len(walked))
        /\ walk = <<>>

C19_Witness ==
    /\ Collected
    /\ walked = <<F_A, F_B>>
    /\ max_file_size = 2
    /\ include_patterns = NoPatterns
    /\ exclude_patterns = NoPatterns
    /\ stats.downloaded_count = 1
    /\ stats.skipped_count = 1
    /\ stats.skipped_files = << <<F_B.path, 3>> >>

\* C20: cleanup_repository never raises and is idempotent: a call on an
\* existing path whose removal succeeds leaves the path absent; a call on an
\* absent path (a second call among them) removes nothing and returns; a call
\* whose removal fails returns as well and leaves the path in place.
C20_CleanupIdempotentNeverRaises ==
    /\ pc # "cleanup_raised"
    /\ \A i \in 1..Len(cleanup_calls) :
         LET c == cleanup_calls[i] IN
         /\ ~c.raised
         /\ c.existed = (IF i = 1 THEN c.existed ELSE cleanup_calls[i - 1].exists)
         /\ (c.existed /\ c.rmtree = "removed") => ~c.exists
         /\ (c.existed /\ c.rmtree # "removed") => c.exists
         /\ ~c.existed => (c.rmtree = "not called" /\ ~c.exists)
    /\ Len(cleanup_calls) >= 1 => ws.exists = cleanup_calls[Len(cleanup_calls)].exists

C20_Witness ==
    /\ Len(cleanup_calls) >= 3
    /\ cleanup_calls[1].rmtree = "OSError"
    /\ cleanup_calls[2].rmtree = "removed"
    /\ ~cleanup_calls[3].existed
    /\ ~ws.exists

\* C24 as stated: owner and repository name are the first two path segments
\* of the URL, a trailing ".git" removed and a "/tree/..." suffix ignored; a
\* URL with fewer than two path segments fails before any network call and
\* before the workspace is allocated.
C24_Claim ==
    /\ \A url \in {URL_PUBLIC, URL_ENTERPRISE, URL_DOT_GIT, URL_TREE} :
         /\ ~ParseGithubUrlFails(url)
         /\ GithubUrlParts(url)[1] = <<"o">>
         /\ GithubUrlParts(url)[2] = <<"r">>
    /\ ParseGithubUrlFails(URL_SHORT)
    /\ repo_url = URL_SHORT =>
         /\ clone_calls = <<>>
         /\ requests = <<>>
         /\ lookups = <<>>
         /\ target_dir = supplied
         /\ supplied = None => ~ws.exists

\* C28 as stated: in the archive transport the save-and-extract step never
\* starts without a response: whenever the request loop has ended without
\* raising, a successful response is bound.
C28_Claim == pc \in {"api_save", "api_extract"} => response

\* The fallback transport of clone_repository is about to start.
FallbackStarts == phase = "fallback" /\ pc \in {"git_start", "api_start"}

\* C29 as stated: whenever clone_repository falls back to the second
\* transport, the target workspace holds nothing the failed first transport
\* wrote: the fallback starts from an empty workspace.
C29_Claim == FallbackStarts => (ws.exists /\ ws.content = {})

\* The transport whose success ended clone_repository.
ProducedBy == attempted[Len(attempted)]

\* C22 as stated: on every successful acquisition the source of the
\* statistics names the transport that produced the workspace: the clone
\* strategy when git clone succeeded, another one when the archive download
\* succeeded, as primary or as fallback.
C22_Claim ==
    Collected => (stats.source = "git_clone" <=> ProducedBy = "clone")

\* The program counters of reference resolution and of the transports.
ResolutionPcs == {"crawl_start", "crawl_branches", "crawl_resolve"}
TransportPcs ==
    {"cr_start", "cr_dispatch", "cr_ret", "git_start", "git_clone", "git_retry",
     "api_start", "api_loop", "api_save", "api_extract", "api_find", "api_move",
     "api_replace"}
CleanupsBy(who) == {i \in 1..Len(cleanups) : cleanups[i].by = who}

\* C23: in one acquisition call resolution comes first, then one or two
\* transport attempts (each started after the one before it has failed, never
\* the same transport twice), then collection, then cleanup; collection
\* starts only after a transport succeeded, never after all of them failed.
C23_StrictOrder ==
    /\ pc \in ResolutionPcs =>
         /\ attempted = <<>> /\ clone_calls = <<>> /\ requests = <<>>
         /\ walked = <<>> /\ files = {} /\ cleanups = <<>>
    /\ attempted # <<>> => ResolutionOver
    /\ Len(attempted) <= 2
    /\ Len(attempted) = 2 => attempted[1] # attempted[2]
    /\ Len(attempted) - 1 <= Len(outcomes) /\ Len(outcomes) <= Len(attempted)
    /\ \A i \in 1..Len(attempted) - 1 : outcomes[i] = "err"
    /\ pc \in TransportPcs =>
         /\ walked = <<>> /\ walk = <<>> /\ files = {}
         /\ CleanupsBy("crawl_github_files") = {}
    /\ (pc = "crawl_walk" \/ walked # <<>>) =>
         /\ attempted # <<>>
         /\ Len(outcomes) = Len(attempted)
         /\ outcomes[Len(outcomes)] = "ok"
         /\ crResult = "returned"
    /\ AllFailed => (pc # "crawl_walk" /\ walked = <<>>)
    /\ CleanupsBy("crawl_github_files") # {} =>
         /\ pc = "crawl_done"
         /\ walk = <<>>
         /\ crResult = "returned"
    /\ CleanupsBy("clone_repository") # {} =>
         /\ Len(outcomes) = Len(attempted)
         /\ \A i \in 1..Len(outcomes) : outcomes[i] = "err"
    /\ Len(cleanups) <= 1

\* Two transports were tried, the second one produced the workspace, its
\* files were collected and the workspace was cleaned up.
C23_Witness ==
    /\ Len(lookups) = 2
    /\ attempted = <<"clone", "archive">>
    /\ outcomes = <<"err", "ok">>
    /\ Len(walked) = 2
    /\ Collected
    /\ Len(cleanups) = 1

\* The suffixes of path p that start at a segment boundary.
SegmentSuffixes(p) ==
    {<<>>} \cup {SubSeq(p, i + 1, Len(p)) : i \in {j \in 1..Len(p) : p[j] = "/"}}

\* The resolver took a branch name as the ref (no tree was checked).
RefIsBranch == ResolutionOver /\ ref # None /\ ~CheckedTree

\* C30 as stated: when the resolver takes a branch name as ref for a URL with
\* a tree marker, the name covers whole path segments of the remainder (the
\* remainder is the name or goes on with "/" right after it) and the derived
\* subpath consists of complete path segments of the URL.
C30_Claim ==
    (repo_url \in TreeUrls /\ RefIsBranch) =>
        /\ Remainder = ref \/ StartsWith(Remainder, ref \o <<"/">>)
        /\ subdir \in SegmentSuffixes(Remainder)

\* The acquisition yielded no files: crawl_github_files returned without a
\* result (resolution failed) or returned a result whose files are empty.
NoFilesAcquired == crawlResult = "None" \/ (crawlResult = "dict" /\ files = {})

\* C21 as stated: whenever the acquisition yields no files (resolution
\* failed, the transports failed, the subdirectory is missing or every file
\* was filtered out), FetchRepo.exec ends with the no-files error
\* ValueError("Failed to fetch files"), and it never returns an empty list.
C21_Claim ==
    /\ (pc = "fetch_done" /\ NoFilesAcquired) =>
           exec_res = "ValueError: Failed to fetch files"
    /\ exec_res = "files_list" => files # {}

\* The index each modelled value of an ordered list stands for, read off the
\* value itself; -1 where it stands for none.
Denotes(e) ==
    CASE e.kind = "int" -> e.val
      [] e = E_TRUE -> 1
      [] e = E_HASH -> 1
      [] e = E_PADDED -> 2
      [] e = E_UNDERSCORE -> 10
      [] OTHER -> -1

AllIndices == 0..(num_abstractions - 1)
RawIndices == {Denotes(ordered_indices_raw[i]) : i \in 1..Len(ordered_indices_raw)}
ValidRawIndices == RawIndices \cap AllIndices
FirstOccurrence(v) ==
    CHOOSE i \in 1..Len(ordered_indices_raw) :
        /\ Denotes(ordered_indices_raw[i]) = v
        /\ \A j \in 1..(i - 1) : Denotes(ordered_indices_raw[j]) # v

\* C25: for every list and every n the order OrderChapters.exec returns is a
\* permutation of 0..n-1: first the valid indices of the list in the order
\* of their first occurrence, then the missing indices in ascending order;
\* [0,2,1] with n = 2 gives [0,1] and [0,2] with n = 3 gives [0,2,1].
C25_OrderIsPermutation ==
    pc = "order_done" =>
        LET kept == Cardinality(ValidRawIndices) IN
        /\ exec_res = "returned"
        /\ Len(ordered_indices) = num_abstractions
        /\ {ordered_indices[i] : i \in 1..Len(ordered_indices)} = AllIndices
        /\ {ordered_indices[i] : i \in 1..kept} = ValidRawIndices
        /\ \A a, b \in 1..kept :
             a < b => FirstOccurrence(ordered_indices[a]) < FirstOccurrence(ordered_indices[b])
        /\ \A a, b \in (kept + 1)..num_abstractions :
             a < b => ordered_indices[a] < ordered_indices[b]
        /\ (ordered_indices_raw = <<IntEntry(0), IntEntry(2), IntEntry(1)>>
              /\ num_abstractions = 2) => ordered_indices = <<0, 1>>
        /\ (ordered_indices_raw = <<IntEntry(0), IntEntry(2)>>
              /\ num_abstractions = 3) => ordered_indices = <<0, 2, 1>>

\* A list with a negative, a duplicate and an unparseable entry was ordered:
\* the valid index comes first and the missing ones follow.
C25_Witness ==
    /\ pc = "order_done"
    /\ num_abstractions = 3
    /\ ordered_indices_raw = <<IntEntry(-1), E_HASH, E_WORD>>
    /\ ordered_indices = <<1, 0, 2>>

\* The index a from/to value of a relationship stands for: str(True) is no
\* number.
RelDenotes(e) == IF e = E_TRUE THEN -1 ELSE Denotes(e)

\* The positions of the relationships list that hold a well-formed
\* relationship between two abstractions.
ValidRels ==
    {i \in 1..Len(relationships) :
        /\ relationships[i].is_dict
        /\ RelKeys \subseteq relationships[i].keys
        /\ relationships[i].label.kind = "str"
        /\ RelDenotes(relationships[i].from_abstraction) \in AllIndices
        /\ RelDenotes(relationships[i].to_abstraction) \in AllIndices}
Details == {validated_relationships[i] : i \in 1..Len(validated_relationships)}

\* C26: for every relationships list and every n, AnalyzeRelationships.exec
\* never raises, every relationship of the details has from and to in
\* 0..n-1, and the entries with a bad structure, a non-string label or
\* unparseable or out-of-bounds indices are dropped: if some entry is valid,
\* the details are the valid entries.
C26_DetailsInBounds ==
    /\ exec_res # "raised"
    /\ \A d \in Details : d.from \in AllIndices /\ d.to \in AllIndices
    /\ (pc = "rel_done" /\ ValidRels # {}) =>
         /\ Len(validated_relationships) = Cardinality(ValidRels)
         /\ Details = {[from |-> RelDenotes(relationships[i].from_abstraction),
                        to |-> RelDenotes(relationships[i].to_abstraction),
                        label |-> relationships[i].label.text] : i \in ValidRels}

\* An out-of-bounds relationship was dropped and the valid one after it, with
\* an index written as "1 # B", was kept.
C26_Witness ==
    /\ pc = "rel_done"
    /\ num_abstractions = 2
    /\ relationships = <<RelDict(RelKeys, IntEntry(0), IntEntry(2), E_WORD),
                         RelDict(RelKeys, E_HASH, IntEntry(0), E_WORD)>>
    /\ validated_relationships = <<[from |-> 1, to |-> 0, label |-> <<"x">>]>>

\* C27 as stated: when no relationship of the list survives validation, the
\* returned details are not empty and every index 0..n-1 occurs as from or
\* to of some relationship, for every n.
C27_Claim ==
    (pc = "rel_done" /\ ValidRels = {}) =>
        /\ validated_relationships # <<>>
        /\ \A k \in AllIndices : \E d \in Details : d.from = k \/ d.to = k
====
